---- MODULE Spec2Model ----
(***************************************************************************)
(* Model of pressrelease_sentiment.py: the text-to-sentiment pipeline      *)
(* (run_pipeline and the functions it calls).                              *)
(*                                                                         *)
(* Representation.                                                         *)
(*  - A Python str is a sequence of one-character strings, so len(), `in`, *)
(*    .lower(), .strip() and the regular expressions are computed on the   *)
(*    characters.                                                          *)
(*  - A Python float is an exact rational [n |-> numerator, d |->          *)
(*    denominator > 0] in lowest terms; 0.05 is 1/20.  Binary rounding of  *)
(*    the float operations is not modelled.                                *)
(*  - None is the empty tuple <<>>; a datetime is <<year, month>>.         *)
(*  - The libraries the program calls (langdetect, nltk, vaderSentiment,   *)
(*    pdfminer) are outside the repository: each call returns a value      *)
(*    chosen from a set of possible results, or raises.                    *)
(***************************************************************************)
EXTENDS Integers, Sequences, FiniteSets, TLC

VARIABLES
    releases,     \* run_pipeline: the list collect_press_releases() returned
    idx,          \* run_pipeline: position of the for loop over releases (1-based)
    rows,         \* run_pipeline: rows
    pc,           \* run_pipeline: "loop" | "score" | "done" | "raised"
    ai_sents,     \* run_pipeline: ai_sents of the release being processed
    pos,          \* run_pipeline: position of the for loop over ai_sents (1-based)
    sent_scores,  \* run_pipeline: sent_scores
    examples,     \* run_pipeline: examples
    written,      \* run_pipeline: the rows written to OUTPUT_CSV (<<>>: no file)
    call,         \* a direct call of one function: its arguments
    ret           \* a direct call of one function: <<>> before, <<result>> after

vars == <<releases, idx, rows, pc, ai_sents, pos, sent_scores, examples, written, call, ret>>

None == <<>>

---------------------------------------------------------------------------
(* Characters and str methods *)

UPPER == <<"A","B","C","D","E","F","G","H","I","J","K","L","M","N","O","P","Q","R","S","T","U","V","W","X","Y","Z","Ä","Ö","Ü">>
LOWER == <<"a","b","c","d","e","f","g","h","i","j","k","l","m","n","o","p","q","r","s","t","u","v","w","x","y","z","ä","ö","ü">>

UpperSet == {UPPER[k] : k \in 1..Len(UPPER)}
LowerSet == {LOWER[k] : k \in 1..Len(LOWER)}
DigitSet == {"0","1","2","3","4","5","6","7","8","9"}
SpaceSet == {" ", "\n", "\t"}

\* \w of the re module (str patterns): letters, digits and the underscore
IsWordChar(c) == c \in UpperSet \cup LowerSet \cup DigitSet \cup {"_", "ß"}

LowerOf == [c \in UpperSet |-> LOWER[CHOOSE k \in 1..Len(UPPER) : UPPER[k] = c]]

\* str.lower()
lower(s) == [k \in 1..Len(s) |-> IF s[k] \in UpperSet THEN LowerOf[s[k]] ELSE s[k]]

\* k in s
contains(s, k) ==
    \E p \in 1..(Len(s) - Len(k) + 1) : \A q \in 1..Len(k) : s[p + q - 1] = k[q]

\* s.startswith(k)
startswith(s, k) == Len(s) >= Len(k) /\ \A q \in 1..Len(k) : s[q] = k[q]

\* s.endswith(k)
endswith(s, k) == Len(s) >= Len(k) /\ \A q \in 1..Len(k) : s[Len(s) - Len(k) + q] = k[q]

\* s.strip()
strip(s) ==
    LET inner == {k \in 1..Len(s) : s[k] \notin SpaceSet}
    IN  IF inner = {} THEN <<>>
        ELSE LET first == CHOOSE k \in inner : \A m \in inner : k <= m
                 last  == CHOOSE k \in inner : \A m \in inner : k >= m
             IN  SubSeq(s, first, last)

\* re.search(r'\b' + re.escape(w) + r'\b', s): w occurs in s as a whole word
search_word(w, s) ==
    \E p \in 1..(Len(s) - Len(w) + 1) :
        /\ \A q \in 1..Len(w) : s[p + q - 1] = w[q]
        /\ (p = 1 \/ ~IsWordChar(s[p - 1]))
        /\ (p + Len(w) > Len(s) \/ ~IsWordChar(s[p + Len(w)]))

\* sep.join(parts)
RECURSIVE join(_, _)
join(sep, parts) ==
    IF parts = <<>> THEN <<>>
    ELSE IF Len(parts) = 1 THEN parts[1]
    ELSE parts[1] \o sep \o join(sep, Tail(parts))

---------------------------------------------------------------------------
(* float arithmetic, as exact rationals *)

RECURSIVE GCD(_, _)
GCD(a, b) == IF b = 0 THEN a ELSE GCD(b, a % b)

Abs(x) == IF x < 0 THEN -x ELSE x

Frac(n, d) ==
    LET g == GCD(Abs(n), d) IN [n |-> n \div g, d |-> d \div g]

FAdd(a, b) == Frac(a.n * b.d + b.n * a.d, a.d * b.d)
FNeg(a)    == [n |-> -a.n, d |-> a.d]
FDiv(a, k) == Frac(a.n, a.d * k)
FAbs(a)    == [n |-> Abs(a.n), d |-> a.d]
FLt(a, b)  == a.n * b.d < b.n * a.d
FLe(a, b)  == a.n * b.d <= b.n * a.d
FGt(a, b)  == FLt(b, a)
FGe(a, b)  == FLe(b, a)
FMin(a, b) == IF FLe(a, b) THEN a ELSE b
FMax(a, b) == IF FGe(a, b) THEN a ELSE b

Zero == Frac(0, 1)
One  == Frac(1, 1)

\* sum(scores)
RECURSIVE FSum(_)
FSum(s) == IF s = <<>> THEN Zero ELSE FAdd(s[1], FSum(Tail(s)))

\* round(x, digits): the possible results, as integers in units of 1/scale, scale =
\* 10^digits.  x is rounded to the nearest; where x lies exactly half way, the binary
\* float nearest to x lies on one side or the other, and either neighbour can result.
round(x, scale) ==
    LET num  == Abs(x.n) * scale
        q    == num \div x.d
        r    == num % x.d
        sign == IF x.n < 0 THEN -1 ELSE 1
    IN  IF 2 * r > x.d THEN {sign * (q + 1)}
        ELSE IF 2 * r < x.d THEN {sign * q}
        ELSE {sign * q, sign * (q + 1)}

---------------------------------------------------------------------------
(* Configuration *)

AI_KEYWORDS_EN == <<
    <<"a","r","t","i","f","i","c","i","a","l"," ","i","n","t","e","l","l","i","g","e","n","c","e">>,
    <<"a","i">>,
    <<"m","a","c","h","i","n","e"," ","l","e","a","r","n","i","n","g">>,
    <<"d","e","e","p"," ","l","e","a","r","n","i","n","g">>,
    <<"n","e","u","r","a","l"," ","n","e","t","w","o","r","k">>,
    <<"n","l","p">>,
    <<"n","a","t","u","r","a","l"," ","l","a","n","g","u","a","g","e"," ","p","r","o","c","e","s","s","i","n","g">>,
    <<"c","o","m","p","u","t","e","r"," ","v","i","s","i","o","n">>,
    <<"g","e","n","e","r","a","t","i","v","e"," ","a","i">>,
    <<"f","o","u","n","d","a","t","i","o","n"," ","m","o","d","e","l">>,
    <<"l","a","r","g","e"," ","l","a","n","g","u","a","g","e"," ","m","o","d","e","l">>,
    <<"l","l","m">> >>

AI_KEYWORDS_DE == <<
    <<"k","ü","n","s","t","l","i","c","h","e"," ","i","n","t","e","l","l","i","g","e","n","z">>,
    <<"k","i">>,
    <<"m","a","s","c","h","i","n","e","l","l","e","s"," ","l","e","r","n","e","n">>,
    <<"d","e","e","p"," ","l","e","a","r","n","i","n","g">>,
    <<"n","e","u","r","o","n","a","l","e","s"," ","n","e","t","z">>,
    <<"n","l","p">>,
    <<"n","a","t","ü","r","l","i","c","h","e"," ","s","p","r","a","c","h","v","e","r","a","r","b","e","i","t","u","n","g">>,
    <<"c","o","m","p","u","t","e","r"," ","v","i","s","i","o","n">>,
    <<"g","e","n","e","r","a","t","i","v","e"," ","k","i">>,
    <<"f","o","u","n","d","a","t","i","o","n"," ","m","o","d","e","l">>,
    <<"g","r","o","ß","e","s"," ","s","p","r","a","c","h","m","o","d","e","l","l">>,
    <<"l","l","m">> >>

MIN_SENTENCE_LEN == 20

\* 0.05 and -0.05
SENTIMENT_THRESHOLDS == [positive |-> Frac(5, 100), negative |-> Frac(-5, 100)]

\* the weights in tenths: 2.0 is Frac(20, 10)
GERMAN_LEXICON == <<
    [w |-> <<"g","u","t">>,                                 val |-> Frac(20, 10)],
    [w |-> <<"p","o","s","i","t","i","v">>,                 val |-> Frac(15, 10)],
    [w |-> <<"e","r","f","o","l","g","r","e","i","c","h">>, val |-> Frac(15, 10)],
    [w |-> <<"s","t","a","r","k">>,                         val |-> Frac(10, 10)],
    [w |-> <<"s","t","ä","r","k","e","n">>,                 val |-> Frac(10, 10)],
    [w |-> <<"v","e","r","b","e","s","s","e","r","t">>,     val |-> Frac(12, 10)],
    [w |-> <<"s","c","h","w","a","c","h">>,                 val |-> Frac(-10, 10)],
    [w |-> <<"p","r","o","b","l","e","m">>,                 val |-> Frac(-15, 10)],
    [w |-> <<"k","r","i","t","i","s","c","h">>,             val |-> Frac(-15, 10)],
    [w |-> <<"f","e","h","l","e","r">>,                     val |-> Frac(-15, 10)],
    [w |-> <<"r","i","s","i","k","o">>,                     val |-> Frac(-15, 10)],
    [w |-> <<"n","e","g","a","t","i","v">>,                 val |-> Frac(-15, 10)],
    [w |-> <<"v","e","r","l","u","s","t">>,                 val |-> Frac(-15, 10)] >>

\* the alternatives of r'\b(nicht|kein|keine|nie|ohne)\b'
NEGATION_TOKENS == <<
    <<"n","i","c","h","t">>, <<"k","e","i","n">>, <<"k","e","i","n","e">>,
    <<"n","i","e">>, <<"o","h","n","e">> >>

DE == <<"d","e">>
UNKNOWN == <<"u","n","k","n","o","w","n">>
PDF == <<".","p","d","f">>

---------------------------------------------------------------------------
(* Date helpers *)

MONTHS_DE == <<
    [name |-> <<"j","a","n","u","a","r">>, num |-> 1],
    [name |-> <<"f","e","b","r","u","a","r">>, num |-> 2],
    [name |-> <<"m","ä","r","z">>, num |-> 3],
    [name |-> <<"m","a","e","r","z">>, num |-> 3],
    [name |-> <<"a","p","r","i","l">>, num |-> 4],
    [name |-> <<"m","a","i">>, num |-> 5],
    [name |-> <<"j","u","n","i">>, num |-> 6],
    [name |-> <<"j","u","l","i">>, num |-> 7],
    [name |-> <<"a","u","g","u","s","t">>, num |-> 8],
    [name |-> <<"s","e","p","t","e","m","b","e","r">>, num |-> 9],
    [name |-> <<"o","k","t","o","b","e","r">>, num |-> 10],
    [name |-> <<"n","o","v","e","m","b","e","r">>, num |-> 11],
    [name |-> <<"d","e","z","e","m","b","e","r">>, num |-> 12] >>

MONTHS_EN == <<
    [name |-> <<"j","a","n","u","a","r","y">>, num |-> 1],
    [name |-> <<"f","e","b","r","u","a","r","y">>, num |-> 2],
    [name |-> <<"m","a","r","c","h">>, num |-> 3],
    [name |-> <<"a","p","r","i","l">>, num |-> 4],
    [name |-> <<"m","a","y">>, num |-> 5],
    [name |-> <<"j","u","n","e">>, num |-> 6],
    [name |-> <<"j","u","l","y">>, num |-> 7],
    [name |-> <<"a","u","g","u","s","t">>, num |-> 8],
    [name |-> <<"s","e","p","t","e","m","b","e","r">>, num |-> 9],
    [name |-> <<"o","c","t","o","b","e","r">>, num |-> 10],
    [name |-> <<"n","o","v","e","m","b","e","r">>, num |-> 11],
    [name |-> <<"d","e","c","e","m","b","e","r">>, num |-> 12] >>

SetMin(S) == CHOOSE x \in S : \A y \in S : x <= y
SetMax(S) == CHOOSE x \in S : \A y \in S : x >= y

\* [A-Za-zäöüÄÖÜ]
LetterSet == UpperSet \cup LowerSet

DIGITS == <<"0","1","2","3","4","5","6","7","8","9">>
DigitVal(c) == (CHOOSE k \in 1..Len(DIGITS) : DIGITS[k] = c) - 1

\* int(s) of a str of digits
RECURSIVE int(_)
int(s) == IF s = <<>> THEN 0 ELSE 10 * int(SubSeq(s, 1, Len(s) - 1)) + DigitVal(s[Len(s)])

\* 20\d{2} matches at position p
year_at(text, p) ==
    /\ p >= 1 /\ p + 3 <= Len(text)
    /\ text[p] = "2" /\ text[p + 1] = "0"
    /\ text[p + 2] \in DigitSet /\ text[p + 3] \in DigitSet

\* dict.get(mon), with 0 for the None of a missing key
months_get(table, mon) ==
    LET hits == {k \in 1..Len(table) : table[k].name = mon}
    IN  IF hits = {} THEN 0 ELSE table[CHOOSE k \in hits : TRUE].num

\* the first position of the run of characters of `set` that ends at position j
run_start(text, j, set) ==
    LET outs == {k \in 1..j : text[k] \notin set}
    IN  IF outs = {} THEN 1 ELSE SetMax(outs) + 1

\* re.search(r'([A-Za-zäöüÄÖÜ]+)\s+' + ystr, text): group 1 of the leftmost match,
\* None without a match.  A match is a whole run of letters, then a whole run of
\* whitespace, then ystr; the leftmost match is the one of the first such ystr.
search_word_before(text, ystr) ==
    LET occ == {y \in 3..(Len(text) - Len(ystr) + 1) :
                   /\ text[y] = ystr[1]
                   /\ text[y - 1] \in SpaceSet
                   /\ \A q \in 1..Len(ystr) : text[y + q - 1] = ystr[q]
                   /\ LET ws == run_start(text, y - 1, SpaceSet)
                      IN  ws > 1 /\ text[ws - 1] \in LetterSet}
    IN  IF occ = {} THEN None
        ELSE LET y  == SetMin(occ)
                 ws == run_start(text, y - 1, SpaceSet)
             IN  SubSeq(text, run_start(text, ws - 1, LetterSet), ws - 1)

\* re.search(r'20\d{2}[.\-\/](\d{1,2})', text): group 1 of the leftmost match,
\* None without a match
search_numeric_month(text) ==
    LET occ == {p \in 1..(Len(text) - 5) :
                   /\ year_at(text, p)
                   /\ text[p + 4] \in {".", "-", "/"}
                   /\ text[p + 5] \in DigitSet}
    IN  IF occ = {} THEN None
        ELSE LET p == SetMin(occ)
             IN  IF p + 6 <= Len(text) /\ text[p + 6] \in DigitSet
                 THEN SubSeq(text, p + 5, p + 6)
                 ELSE SubSeq(text, p + 5, p + 5)

\* datetime(year, month, 1) raises ValueError for a month outside 1..12
valid_month(month) == month >= 1 /\ month <= 12

_find_date_in_text(text) ==
    IF text = <<>> THEN None
    ELSE LET years == {p \in 1..(Len(text) - 3) : year_at(text, p)}
         IN  IF years = {} THEN None
             ELSE LET p      == SetMin(years)
                      ystr   == SubSeq(text, p, p + 3)
                      year   == int(ystr)
                      m2     == search_word_before(text, ystr)
                      mon    == lower(m2)
                      en     == months_get(MONTHS_EN, mon)
                      monnum == IF en # 0 THEN en ELSE months_get(MONTHS_DE, mon)
                      m3     == search_numeric_month(text)
                  IN  IF m2 # None /\ monnum # 0 THEN <<year, monnum>>
                      ELSE IF m3 # None /\ valid_month(int(m3)) THEN <<year, int(m3)>>
                      ELSE <<year, 1>>

---------------------------------------------------------------------------
(* Results of the library calls: <<"ok", value>> or <<"raise">> *)

Ok(v)     == <<"ok", v>>
Raise     == <<"raise">>
Raised(o) == o[1] = "raise"

---------------------------------------------------------------------------
(* Text processing & sentiment *)

\* detected: what langdetect's detect(text) does
detect_lang(detected) ==
    IF Raised(detected) THEN UNKNOWN ELSE detected[2]

\* re.split(r'(?<=[.!?])\s+', text)
RECURSIVE re_split(_)
re_split(text) ==
    LET cuts == {p \in 2..Len(text) :
                    text[p] \in SpaceSet /\ text[p - 1] \in {".", "!", "?"}}
    IN  IF cuts = {} THEN <<text>>
        ELSE LET p == CHOOSE c \in cuts : \A m \in cuts : c <= m
                 after == {k \in p..Len(text) : text[k] \notin SpaceSet}
                 q == IF after = {} THEN Len(text) + 1
                      ELSE CHOOSE k \in after : \A m \in after : k <= m
             IN  <<SubSeq(text, 1, p - 1)>> \o re_split(SubSeq(text, q, Len(text)))

\* [s.strip() for s in parts if s.strip()]
RECURSIVE strip_nonempty(_)
strip_nonempty(parts) ==
    IF parts = <<>> THEN <<>>
    ELSE IF strip(parts[1]) = <<>> THEN strip_nonempty(Tail(parts))
    ELSE <<strip(parts[1])>> \o strip_nonempty(Tail(parts))

\* tokenized: what nltk's sent_tokenize(text, language) does; the language only
\* selects the punkt model
split_sentences(text, lang, tokenized) ==
    IF Raised(tokenized) THEN strip_nonempty(re_split(text)) ELSE tokenized[2]

sentence_mentions_ai(sentence, lang) ==
    LET s    == lower(sentence)
        keys == IF lang # <<>> /\ startswith(lang, DE) THEN AI_KEYWORDS_DE ELSE AI_KEYWORDS_EN
    IN  \E k \in 1..Len(keys) : contains(s, keys[k])

\* ai_filter skipping the sentences of MIN_SENTENCE_LEN characters too
RECURSIVE ai_filter_longer_only(_, _)
ai_filter_longer_only(sents, lang) ==
    IF sents = <<>> THEN <<>>
    ELSE LET s == sents[1]
             rest == ai_filter_longer_only(Tail(sents), lang)
         IN  IF Len(s) <= MIN_SENTENCE_LEN THEN rest
             ELSE IF sentence_mentions_ai(s, lang) THEN <<<<lang, strip(s)>>>> \o rest
             ELSE rest

RECURSIVE ai_filter(_, _)
ai_filter(sents, lang) ==
    IF sents = <<>> THEN <<>>
    ELSE LET s == sents[1]
             rest == ai_filter(Tail(sents), lang)
         IN  IF Len(s) < MIN_SENTENCE_LEN THEN rest
             ELSE IF sentence_mentions_ai(s, lang) THEN <<<<lang, strip(s)>>>> \o rest
             ELSE rest

extract_ai_sentences(text, detected, tokenized) ==
    LET lang  == detect_lang(detected)
        sents == split_sentences(text, lang, tokenized)
    IN  ai_filter(sents, lang)

\* the sum of the weights of the lexicon entries k..13 that occur in s as whole words
RECURSIVE lexicon_sum(_, _)
lexicon_sum(s, k) ==
    IF k > Len(GERMAN_LEXICON) THEN Zero
    ELSE IF search_word(GERMAN_LEXICON[k].w, s)
         THEN FAdd(GERMAN_LEXICON[k].val, lexicon_sum(s, k + 1))
         ELSE lexicon_sum(s, k + 1)

\* has_negation knowing the token "nicht" only
has_negation_nicht_only(s) == search_word(NEGATION_TOKENS[1], s)

has_negation(s) == \E k \in 1..Len(NEGATION_TOKENS) : search_word(NEGATION_TOKENS[k], s)

\* score_sentence dividing by 3.0 without min and max
score_sentence_unclamped(lang, sentence, compound) ==
    IF lang # <<>> /\ startswith(lang, DE)
    THEN LET s     == lower(sentence)
             sum   == lexicon_sum(s, 1)
             score == IF has_negation(s) THEN FNeg(sum) ELSE sum
         IN  FDiv(score, 3)
    ELSE compound

\* compound: what analyzer_en.polarity_scores(sentence)["compound"] is
score_sentence(lang, sentence, compound) ==
    IF lang # <<>> /\ startswith(lang, DE)
    THEN LET s     == lower(sentence)
             sum   == lexicon_sum(s, 1)
             score == IF has_negation(s) THEN FNeg(sum) ELSE sum
         IN  IF FGt(score, Zero) THEN FMin(FDiv(score, 3), One)
             ELSE IF FLt(score, Zero) THEN FMax(FDiv(score, 3), FNeg(One))
             ELSE Zero
    ELSE compound

\* label_from_score with strict comparisons
label_from_score_strict(score) ==
    IF FGt(score, SENTIMENT_THRESHOLDS["positive"]) THEN <<"positive", score>>
    ELSE IF FLt(score, SENTIMENT_THRESHOLDS["negative"]) THEN <<"negative", score>>
    ELSE <<"neutral", score>>

label_from_score(score) ==
    IF FGe(score, SENTIMENT_THRESHOLDS["positive"]) THEN <<"positive", score>>
    ELSE IF FLe(score, SENTIMENT_THRESHOLDS["negative"]) THEN <<"negative", score>>
    ELSE <<"neutral", score>>

\* aggregate_release counting the scores with abs(s) >= 0.05
aggregate_release_ge(scores) ==
    IF scores = <<>>
    THEN [label |-> "neutral", score |-> Zero, confidence |-> Zero, count |-> 0]
    ELSE LET avg == FDiv(FSum(scores), Len(scores))
             non_neutral == Cardinality({k \in 1..Len(scores) : FGe(FAbs(scores[k]), Frac(5, 100))})
             conf == Frac(non_neutral, Len(scores))
             label == label_from_score(avg)[1]
         IN  [label |-> label, score |-> avg, confidence |-> conf, count |-> Len(scores)]

aggregate_release(scores) ==
    IF scores = <<>>
    THEN [label |-> "neutral", score |-> Zero, confidence |-> Zero, count |-> 0]
    ELSE LET avg == FDiv(FSum(scores), Len(scores))
             non_neutral == Cardinality({k \in 1..Len(scores) : FGt(FAbs(scores[k]), Frac(5, 100))})
             conf == Frac(non_neutral, Len(scores))
             label == label_from_score(avg)[1]
         IN  [label |-> label, score |-> avg, confidence |-> conf, count |-> Len(scores)]

---------------------------------------------------------------------------
(* Runner *)

\* A release's "text" is held as the sequence of its sentences, as nltk's punkt
\* tokenizer splits it; the str itself is the sentences joined by single spaces.
text_str(sents) == join(<<" ">>, sents)

\* the "" of an unresolved year or month (no resolved year or month is 0)
EMPTY == 0

\* extracted: what pdfminer's extract_text(item["url"]) does.  The item is changed
\* in place: the result is the item as it is afterwards.
ensure_text(item, extracted) ==
    IF text_str(item.text) # <<>> THEN item
    ELSE IF \/ endswith(lower(item.url), PDF)
            \/ (item.local /\ endswith(lower(item.url), PDF))
         THEN IF Raised(extracted) THEN [item EXCEPT !.text = <<>>]
              ELSE [item EXCEPT !.text = extracted[2]]
         ELSE [item EXCEPT !.text = <<>>]

\* extract_year_month asking the title before the text
extract_year_month_title_first(publish_date, text, title, url) ==
    IF publish_date # None THEN <<publish_date[1], publish_date[2]>>
    ELSE IF _find_date_in_text(title) # None THEN _find_date_in_text(title)
    ELSE IF _find_date_in_text(text) # None THEN _find_date_in_text(text)
    ELSE IF _find_date_in_text(url) # None THEN _find_date_in_text(url)
    ELSE <<EMPTY, EMPTY>>

\* publish_date is None or a datetime
extract_year_month(publish_date, text, title, url) ==
    IF publish_date # None THEN <<publish_date[1], publish_date[2]>>
    ELSE IF _find_date_in_text(text) # None THEN _find_date_in_text(text)
    ELSE IF _find_date_in_text(title) # None THEN _find_date_in_text(title)
    ELSE IF _find_date_in_text(url) # None THEN _find_date_in_text(url)
    ELSE <<EMPTY, EMPTY>>

\* skipped with the length test forgotten
skipped_no_length(text) == text = <<>>

\* if not text or len(text) < 50: continue
skipped(text) == text = <<>> \/ Len(text) < 50

EmptyExamples == [positive |-> <<>>, neutral |-> <<>>, negative |-> <<>>]

\* add_example with one cap of 3 shared by the three buckets
add_example_shared_cap(ex, lbl, sent) ==
    IF Len(ex["positive"]) + Len(ex["neutral"]) + Len(ex["negative"]) < 3
    THEN [ex EXCEPT ![lbl] = Append(@, sent)] ELSE ex

\* if len(examples[lbl]) < 3: examples[lbl].append(sent)
add_example(ex, lbl, sent) ==
    IF Len(ex[lbl]) < 3 THEN [ex EXCEPT ![lbl] = Append(@, sent)] ELSE ex

\* the rows run_pipeline can build from one release: one row, or two where a rounding
\* is an exact tie
make_rows(r, text, agg, ex) ==
    LET ym == extract_year_month(r.publish_date, text, r.title, r.url)
    IN  { [company           |-> r.company,
           title             |-> r.title,
           url               |-> r.url,
           year              |-> ym[1],
           month             |-> ym[2],
           label             |-> agg.label,
           score             |-> s4,
           confidence        |-> c3,
           ai_sentence_count |-> agg.count,
           example_positive  |-> join(<<" ","|"," ">>, ex["positive"]),
           example_neutral   |-> join(<<" ","|"," ">>, ex["neutral"]),
           example_negative  |-> join(<<" ","|"," ">>, ex["negative"])]
        : s4 \in round(agg.score, 10000), c3 \in round(agg.confidence, 1000) }

---------------------------------------------------------------------------
(* Inputs of run_pipeline: the releases and what the libraries answer *)

MaxReleases == 2
MaxSents == 5

EN == <<"e","n">>
DA == <<"d","a">>

GP == <<"D","i","e"," ","K","I"," ","i","s","t"," ","g","u","t"," ","u","n","d"," ","s","t","a","r","k",".">>
GN == <<"D","i","e"," ","K","I"," ","b","l","e","i","b","t"," ","e","i","n"," ","R","i","s","i","k","o",".">>
GZ == <<"D","i","e"," ","K","I"," ","h","i","l","f","t"," ","z","."," ","B","."," ","i","m"," ","W","e","r","k",".">>
EL == <<"T","h","e"," ","L","L","M"," ","r","o","l","l","o","u","t"," ","w","e","n","t"," ","w","e","l","l",".">>
EA == <<"O","u","r"," ","A","I"," ","p","l","a","t","f","o","r","m"," ","i","s"," ","g","r","e","a","t",".">>
NA == <<"D","e","r"," ","U","m","s","a","t","z"," ","s","t","i","e","g"," ","d","e","u","t","l","i","c","h",".">>
SHORT == <<"K","I"," ","i","s","t"," ","g","u","t",".">>

URL_HTML  == <<"h","t","t","p","s",":","/","/","x",".","d","e","/","n","e","w","s","/","1">>
URL_PDF   == <<"l","o","c","a","l","_","r","e","l","e","a","s","e","s","/","s","a","p","_","2","0","2","3","-","0","4",".","P","D","F">>
URL_DE    == <<"h","t","t","p","s",":","/","/","x",".","d","e","/","p","r","e","s","s","e","/","2">>
URL_EN    == <<"h","t","t","p","s",":","/","/","x",".","d","e","/","p","r","e","s","s","/","3">>
URL_SHORT == <<"h","t","t","p","s",":","/","/","x",".","d","e","/","n","e","w","s","/","4">>
URL_LONG  == <<"h","t","t","p","s",":","/","/","x",".","d","e","/","n","e","w","s","/","5">>
TITLE_PDF  == <<"s","a","p","_","2","0","2","3","-","0","4",".","P","D","F">>
TITLE_DE   == <<"K","I"," ","i","m"," ","W","e","r","k">>
TITLE_EN   == <<"A","I"," ","u","p","d","a","t","e",","," ","M","a","y"," ","2","0","2","5">>
TITLE_NONE == <<"N","e","w","s">>
SAP == <<"s","a","p">>

Release(url, title, text, publish_date, company, local) ==
    [url |-> url, title |-> title, text |-> text, publish_date |-> publish_date,
     company |-> company, local |-> local]

\* a scraped page without text, a local PDF, a page with a short text, a German and
\* an English release
R_NOTEXT == Release(URL_HTML, TITLE_NONE, <<>>, None, <<>>, FALSE)
R_PDF    == Release(URL_PDF, TITLE_PDF, <<>>, None, SAP, TRUE)
R_SHORT  == Release(URL_SHORT, TITLE_DE, <<GP, SHORT>>, None, <<>>, FALSE)
R_DE     == Release(URL_DE, TITLE_DE, <<GP, GZ, NA>>, <<2024, 6>>, SAP, FALSE)
R_EN     == Release(URL_EN, TITLE_EN, <<EA, NA>>, None, <<>>, FALSE)

SmallReleases == {R_NOTEXT, R_PDF, R_SHORT, R_DE, R_EN}

\* the sequences over S of the lengths lo..hi
SeqsOf(S, lo, hi) == UNION {[1..n -> S] : n \in lo..hi}

\* one release with a long text: German sentences of the three labels, or English ones
LongTexts == SeqsOf({GP, GN, GZ}, 2, MaxSents) \cup SeqsOf({EL}, 2, MaxSents)
LongReleases == {Release(URL_LONG, TITLE_NONE, t, None, <<>>, FALSE) : t \in LongTexts}

Batches == SeqsOf(SmallReleases, 0, MaxReleases) \cup {<<r>> : r \in LongReleases}

\* pdfminer: raises, or returns the text of the PDF
PdfResults == {Raise, Ok(<<>>), Ok(<<GN, GP>>)}

\* langdetect: raises, or returns a language tag
DetectResults == {Raise, Ok(DE), Ok(EN)}

\* vaderSentiment: the compound score, a float in [-1, 1] rounded to 4 decimal places
VaderScores == {Frac(-1, 2), Frac(-5, 100), Frac(499, 10000), Frac(5, 100), Frac(1, 2)}

---------------------------------------------------------------------------
(* run_pipeline *)

Init ==
    /\ releases \in Batches
    /\ idx = 1
    /\ rows = <<>>
    /\ pc = "loop"
    /\ ai_sents = <<>>
    /\ pos = 1
    /\ sent_scores = <<>>
    /\ examples = EmptyExamples
    /\ written = None
    /\ call = None
    /\ ret = None

\* the for loop over releases, a release without usable text: continue
SkipRelease ==
    /\ pc = "loop" /\ idx <= Len(releases)
    /\ \E extracted \in PdfResults :
        LET r == ensure_text(releases[idx], extracted)
        IN  /\ skipped(text_str(r.text))
            /\ releases' = [releases EXCEPT ![idx] = r]
            /\ idx' = idx + 1
    /\ UNCHANGED <<rows, pc, ai_sents, pos, sent_scores, examples, written, call, ret>>

\* the for loop over releases, a release with text: up to the loop over ai_sents
StartRelease ==
    /\ pc = "loop" /\ idx <= Len(releases)
    /\ \E extracted \in PdfResults, detected \in DetectResults, punkt_raises \in BOOLEAN :
        LET r == ensure_text(releases[idx], extracted)
            text == text_str(r.text)
        IN  /\ ~skipped(text)
            /\ releases' = [releases EXCEPT ![idx] = r]
            /\ ai_sents' = extract_ai_sentences(text, detected,
                               IF punkt_raises THEN Raise ELSE Ok(r.text))
            /\ sent_scores' = <<>>
            /\ examples' = EmptyExamples
            /\ pos' = 1
            /\ pc' = "score"
    /\ UNCHANGED <<idx, rows, written, call, ret>>

\* one pass of the for loop over ai_sents
ScoreSentence ==
    /\ pc = "score" /\ pos <= Len(ai_sents)
    /\ LET lang == ai_sents[pos][1]
           sent == ai_sents[pos][2]
           \* analyzer_en is called on the English path only
           compounds == IF lang # <<>> /\ startswith(lang, DE) THEN {Zero} ELSE VaderScores
       IN  \E compound \in compounds :
            LET sc  == score_sentence(lang, sent, compound)
                lbl == label_from_score(sc)[1]
            IN  /\ sent_scores' = Append(sent_scores, sc)
                /\ examples' = add_example(examples, lbl, sent)
    /\ pos' = pos + 1
    /\ UNCHANGED <<releases, idx, rows, pc, ai_sents, written, call, ret>>

\* analyzer_en.polarity_scores raises: nothing in run_pipeline catches it, and
\* run_pipeline ends with the exception before it writes anything
ScoreRaises ==
    /\ pc = "score" /\ pos <= Len(ai_sents)
    /\ ~(ai_sents[pos][1] # <<>> /\ startswith(ai_sents[pos][1], DE))
    /\ pc' = "raised"
    /\ UNCHANGED <<releases, idx, rows, ai_sents, pos, sent_scores, examples, written, call, ret>>

\* after the loop over ai_sents: the release's row
FinishRelease ==
    /\ pc = "score" /\ pos > Len(ai_sents)
    /\ LET r   == releases[idx]
           agg == aggregate_release(sent_scores)
       IN  \E row \in make_rows(r, text_str(r.text), agg, examples) :
            rows' = Append(rows, row)
    /\ idx' = idx + 1
    /\ pc' = "loop"
    /\ UNCHANGED <<releases, ai_sents, pos, sent_scores, examples, written, call, ret>>

\* after the loop over releases: the CSV file, or the message that there are no rows
WriteOutput ==
    /\ pc = "loop" /\ idx > Len(releases)
    /\ written' = IF rows = <<>> THEN None ELSE rows
    /\ pc' = "done"
    /\ UNCHANGED <<releases, idx, rows, ai_sents, pos, sent_scores, examples, call, ret>>

Next ==
    \/ SkipRelease
    \/ StartRelease
    \/ ScoreSentence
    \/ ScoreRaises
    \/ FinishRelease
    \/ WriteOutput

Spec == Init /\ [][Next]_vars

---------------------------------------------------------------------------
(* Direct calls of single functions: the arguments are drawn in the initial state,
   the call stores the result *)

\* run_pipeline is not running
Idle ==
    /\ releases = <<>>
    /\ idx = 1
    /\ rows = <<>>
    /\ pc = "call"
    /\ ai_sents = <<>>
    /\ pos = 1
    /\ sent_scores = <<>>
    /\ examples = EmptyExamples
    /\ written = None

pipeline_vars == <<releases, idx, rows, pc, ai_sents, pos, sent_scores, examples, written>>

(* aggregate_release(scores) *)

MaxScores == 3

\* -1.0, -0.3, -0.0501, -0.05, 0.0, 0.0499, 0.05, 0.2, 1.0
ScoreGrid == {Frac(-1, 1), Frac(-3, 10), Frac(-501, 10000), Frac(-5, 100), Zero,
              Frac(499, 10000), Frac(5, 100), Frac(2, 10), One}

InitAggregate ==
    /\ Idle
    /\ call \in SeqsOf(ScoreGrid, 0, MaxScores)
    /\ ret = None

CallAggregate ==
    /\ pc = "call" /\ ret = None
    /\ ret' = <<aggregate_release(call)>>
    /\ UNCHANGED <<pipeline_vars, call>>

SpecAggregate == InitAggregate /\ [][CallAggregate]_vars

(* extract_ai_sentences(text) *)

MaxWords == 3

FilterWords == {<<"K","I">>,
                <<"A","I">>,
                <<"S","k","i","z","z","e">>,
                <<"m","a","i","n","t","a","i","n">>,
                <<"L","L","M">>,
                <<"M","a","c","h","i","n","e">>,
                <<"L","e","a","r","n","i","n","g">>,
                <<"U","m","s","a","t","z","w","a","c","h","s","t","u","m">>}

\* the sentence made of the words ws
SentenceOf(ws) == join(<<" ">>, ws) \o <<".">>

\* the texts: one sentence of 1..MaxWords words, followed by the German sentence GP
FilterTexts == {<<SentenceOf(ws), GP>> : ws \in SeqsOf(FilterWords, 1, MaxWords)}

\* call.sents are the sentences of the text; nltk either returns them or raises
InitFilter ==
    /\ Idle
    /\ \E sents \in FilterTexts, detected \in {Raise, Ok(DE), Ok(EN), Ok(DA)} :
          \E tokenized \in {Raise, Ok(sents)} :
            call = [sents |-> sents, detected |-> detected, tokenized |-> tokenized]
    /\ ret = None

CallFilter ==
    /\ pc = "call" /\ ret = None
    /\ ret' = <<extract_ai_sentences(text_str(call.sents), call.detected, call.tokenized)>>
    /\ UNCHANGED <<pipeline_vars, call>>

SpecFilter == InitFilter /\ [][CallFilter]_vars

(* score_sentence(lang, sentence) *)

MaxHits == 3
MaxNegations == 2

\* the lexicon terms as they are written in a sentence, in the order of GERMAN_LEXICON
HitWords == <<<<"g","u","t">>, <<"p","o","s","i","t","i","v">>, <<"e","r","f","o","l","g","r","e","i","c","h">>, <<"s","t","a","r","k">>, <<"S","t","ä","r","k","e","n">>, <<"v","e","r","b","e","s","s","e","r","t">>, <<"s","c","h","w","a","c","h">>, <<"P","r","o","b","l","e","m">>, <<"k","r","i","t","i","s","c","h">>, <<"F","e","h","l","e","r">>, <<"R","i","s","i","k","o">>, <<"n","e","g","a","t","i","v">>, <<"V","e","r","l","u","s","t">>>>

\* the words of hits from the k-th on, in the order of the lexicon
RECURSIVE HitSeq(_, _)
HitSeq(hits, k) ==
    IF k > Len(HitWords) THEN <<>>
    ELSE IF k \in hits THEN <<HitWords[k]>> \o HitSeq(hits, k + 1)
    ELSE HitSeq(hits, k + 1)

\* no negation token, or 1..MaxNegations consecutive tokens of NEGATION_TOKENS
NegSeqs ==
    {<<>>} \cup {[k \in 1..n |-> NEGATION_TOKENS[((a + k - 2) % Len(NEGATION_TOKENS)) + 1]] :
                    a \in 1..Len(NEGATION_TOKENS), n \in 1..MaxNegations}

\* words that hold a lexicon term or a negation token without being one
Decoys == {<<>>, <<<<"g","u","t","e">>, <<"k","e","i","n","e","r">>, <<"p","r","o","b","l","e","m","l","o","s">>>>}

\* "Die KI <hits> <negs> <decoys>."
ScoreInput(c) ==
    join(<<" ">>, <<<<"D","i","e">>, <<"K","I">>>> \o HitSeq(c.hits, 1) \o c.negs \o c.decoys) \o <<".">>

ScoreCompounds == VaderScores \cup {Frac(-1, 1), One}

ScoreCalls ==
    {[lang |-> DE, hits |-> h, negs |-> n, decoys |-> d, compound |-> Zero] :
        h \in {x \in SUBSET (1..Len(HitWords)) : Cardinality(x) <= MaxHits},
        n \in NegSeqs, d \in Decoys}
    \cup
    {[lang |-> l, hits |-> {1}, negs |-> <<>>, decoys |-> <<>>, compound |-> c] :
        l \in {EN, DA, UNKNOWN}, c \in ScoreCompounds}

InitScore ==
    /\ Idle
    /\ call \in ScoreCalls
    /\ ret = None

CallScore ==
    /\ pc = "call" /\ ret = None
    /\ ret' = <<score_sentence(call.lang, ScoreInput(call), call.compound)>>
    /\ UNCHANGED <<pipeline_vars, call>>

\* analyzer_en.polarity_scores raises, and so does score_sentence
CallScoreRaises ==
    /\ pc = "call" /\ ret = None
    /\ ~(call.lang # <<>> /\ startswith(call.lang, DE))
    /\ pc' = "raised"
    /\ UNCHANGED <<releases, idx, rows, ai_sents, pos, sent_scores, examples, written, call, ret>>

NextScore == CallScore \/ CallScoreRaises

SpecScore == InitScore /\ [][NextScore]_vars

(* extract_year_month(publish_date, text, title, url) *)

MaxDateWords == 2

DateWords == {<<"I","m">>,
              <<"M","a","i">>,
              <<"M","ä","r","z">>,
              <<"J","u","n","i">>,
              <<"2","0","2","4">>,
              <<"2","0","2","3","-","0","7">>,
              <<"2","0","2","5","/","1","3">>}

\* the texts of 0..MaxDateWords words
DateTexts == {join(<<" ">>, ws) : ws \in SeqsOf(DateWords, 0, MaxDateWords)}

URL_DATED == <<"h","t","t","p","s",":","/","/","x",".","d","e","/","2","0","2","2","/","1","1","/","n","e","w","s">>

DateCalls ==
    {[publish_date |-> pd, text |-> tx, title |-> ti, url |-> u] :
        pd \in {None, <<2018, 2>>}, tx \in DateTexts,
        ti \in {<<>>, TITLE_NONE, TITLE_EN, TITLE_PDF},
        u \in {URL_HTML, URL_PDF, URL_DATED}}

InitDate ==
    /\ Idle
    /\ call \in DateCalls
    /\ ret = None

CallDate ==
    /\ pc = "call" /\ ret = None
    /\ ret' = <<extract_year_month(call.publish_date, call.text, call.title, call.url)>>
    /\ UNCHANGED <<pipeline_vars, call>>

SpecDate == InitDate /\ [][CallDate]_vars

(* _find_date_in_text(text) *)

MaxFindWords == 3

FindWords == {<<"B","e","r","i","c","h","t">>,
              <<"M","a","i">>,
              <<"D","e","c","e","m","b","e","r">>,
              <<"2","0","2","4">>,
              <<"2","0","2","3">>,
              <<"2","0","2","4","-","0","3">>,
              <<"2","0","2","5","/","1","3">>}

\* the texts of 0..MaxFindWords words
FindTexts == {join(<<" ">>, ws) : ws \in SeqsOf(FindWords, 0, MaxFindWords)}

InitFind ==
    /\ Idle
    /\ call \in FindTexts
    /\ ret = None

CallFind ==
    /\ pc = "call" /\ ret = None
    /\ ret' = <<_find_date_in_text(call)>>
    /\ UNCHANGED <<pipeline_vars, call>>

SpecFind == InitFind /\ [][CallFind]_vars

---------------------------------------------------------------------------
(* Properties of run_pipeline *)

Labels == {"positive", "neutral", "negative"}

\* the label of the rational x by the thresholds +0.05 and -0.05, in integers
RefLabel(x) ==
    IF 20 * x.n >= x.d THEN "positive"
    ELSE IF 20 * x.n <= -x.d THEN "negative"
    ELSE "neutral"

\* a score in units of 1/30000 (every score is k/10000 or k/30)
Units(x) == x.n * (30000 \div x.d)

RECURSIVE SumUnits(_)
SumUnits(scores) == IF scores = <<>> THEN 0 ELSE Units(scores[1]) + SumUnits(Tail(scores))

\* the label of the mean of a non-empty list of scores, in integers
RefMeanLabel(scores) ==
    IF 20 * SumUnits(scores) >= 30000 * Len(scores) THEN "positive"
    ELSE IF 20 * SumUnits(scores) <= -30000 * Len(scores) THEN "negative"
    ELSE "neutral"

\* the first k AI sentences of the current release whose own score has label b
RECURSIVE Picked(_, _)
Picked(k, b) ==
    IF k = 0 THEN <<>>
    ELSE IF RefLabel(sent_scores[k]) = b THEN Append(Picked(k - 1, b), ai_sents[k][2])
    ELSE Picked(k - 1, b)

FirstN(seq, n) == SubSeq(seq, 1, IF Len(seq) < n THEN Len(seq) ELSE n)

\* the releases the loop has finished with, and those of them with a usable text
Processed == SubSeq(releases, 1, idx - 1)
Usable == SelectSeq(Processed, LAMBDA r : Len(text_str(r.text)) >= 50)

\* the last row belongs to the release whose scores and examples are still held
LastRowIsCurrent == pc \in {"loop", "done"} /\ rows # <<>>
LastRow == rows[Len(rows)]

\* C1: the rows are, in order, one row for each release processed so far whose text
\* (after ensure_text) has at least 50 characters, and no row for any other release;
\* when run_pipeline ends, every release has been processed and these rows are written.
C1_OneRowPerUsableRelease ==
    /\ Len(rows) = Len(Usable)
    /\ \A k \in 1..Len(rows) : rows[k].url = Usable[k].url /\ rows[k].title = Usable[k].title
    /\ pc = "done" => (idx = Len(releases) + 1 /\ written = rows)

\* C1 witness: a batch has ended in which the first release was skipped for its short
\* text and the second, without any AI sentence, has its row.
C1_Witness ==
    /\ pc = "done" /\ Len(releases) = 2 /\ Len(rows) = 1
    /\ releases[1].text # <<>> /\ Len(text_str(releases[1].text)) < 50
    /\ rows[1].url = releases[2].url /\ rows[1].ai_sentence_count = 0

\* C2: a fault raised while a release is processed never aborts the batch.
C2_NoFaultAbortsTheBatch == pc # "raised"

\* C4: scores >= 0.05 are labelled positive, scores <= -0.05 negative, all others
\* neutral, for each sentence and for the release alike: every example sentence
\* lies in the bucket of the label its own score has by these thresholds, the bucket
\* of every scored sentence's label is in use, and a row's label is the label the
\* mean of its release's scores has by the same thresholds (neutral without scores).
C4_SameThresholdsAtBothLevels ==
    /\ \A b \in Labels : \A j \in 1..Len(examples[b]) :
          \E k \in 1..Len(sent_scores) :
              ai_sents[k][2] = examples[b][j] /\ RefLabel(sent_scores[k]) = b
    /\ \A k \in 1..Len(sent_scores) : examples[RefLabel(sent_scores[k])] # <<>>
    /\ LastRowIsCurrent =>
          LastRow.label = IF sent_scores = <<>> THEN "neutral" ELSE RefMeanLabel(sent_scores)

\* C4 witness: a release has ended whose two sentences both score exactly 0.05: both
\* are positive examples, and the row, with the mean 0.05, is labelled positive.
C4_Witness ==
    /\ pc = "done"
    /\ sent_scores = <<Frac(5, 100), Frac(5, 100)>>
    /\ Len(examples["positive"]) = 2
    /\ LastRow.label = "positive"

C10_ConfidenceIsShareOfNonNeutralLabels ==
    (LastRowIsCurrent /\ sent_scores # <<>>) =>
        LastRow.confidence \in
            round(Frac(Cardinality({k \in 1..Len(sent_scores) :
                                       label_from_score(sent_scores[k])[1] # "neutral"}),
                       Len(sent_scores)), 1000)

---------------------------------------------------------------------------
(* Properties of aggregate_release *)

\* C3: aggregate_release(scores) is {neutral, 0.0, 0.0, 0} for the empty list, and
\* otherwise has count = len(scores), score = the arithmetic mean, label = the label
\* of the mean by the thresholds, and confidence = (number of scores with
\* |score| > 0.05) / count, which lies in [0, 1].
C3_AggregateIsTheReference ==
    ret # None =>
        LET a == ret[1]
            n == Len(call)
            strong == Cardinality({k \in 1..n : 20 * Abs(call[k].n) > call[k].d})
        IN  IF n = 0
            THEN a = [label |-> "neutral", score |-> Zero, confidence |-> Zero, count |-> 0]
            ELSE /\ a.count = n
                 /\ a.score.d > 0
                 /\ (30000 * n) % a.score.d = 0
                 /\ a.score.n * ((30000 * n) \div a.score.d) = SumUnits(call)
                 /\ a.label = RefMeanLabel(call)
                 /\ a.confidence.d > 0
                 /\ a.confidence.n * n = strong * a.confidence.d
                 /\ a.confidence.n >= 0 /\ a.confidence.n <= a.confidence.d

\* C3 witness: the scores [0.2, -0.3, 0.0] gave the mean -1/30, the confidence 2/3,
\* the label neutral and the count 3.
C3_Witness ==
    /\ call = <<Frac(2, 10), Frac(-3, 10), Zero>>
    /\ ret = <<[label |-> "neutral", score |-> Frac(-1, 30), confidence |-> Frac(2, 3),
                count |-> 3]>>

---------------------------------------------------------------------------
(* Properties of extract_ai_sentences *)

\* the keyword set a language tag selects
KeySet(tag) ==
    IF Len(tag) >= 2 /\ SubSeq(tag, 1, 2) = <<"d", "e">> THEN AI_KEYWORDS_DE
    ELSE AI_KEYWORDS_EN

Occurs(k, s) == \E p \in 1..(Len(s) - Len(k) + 1) : SubSeq(s, p, p + Len(k) - 1) = k

RefQualifies(s, tag) ==
    /\ Len(s) >= 20
    /\ \E i \in 1..Len(KeySet(tag)) : Occurs(KeySet(tag)[i], lower(s))

\* C6: the sentences kept for a release are exactly its sentences of at least 20
\* characters whose lowercased form contains a keyword of the set selected by the
\* release's one language tag (German set for a tag starting with "de", English set
\* otherwise, "unknown" included), in order, and each is paired with that same tag.
C6_KeptIffLongAndKeyword ==
    ret # None =>
        LET tag  == IF call.detected = Raise THEN UNKNOWN ELSE call.detected[2]
            kept == SelectSeq(call.sents, LAMBDA x : RefQualifies(x, tag))
        IN  ret[1] = [k \in 1..Len(kept) |-> <<tag, kept[k]>>]

\* C6 witness: language detection failed, the 20-character sentence
\* "Machine Learning KI." was kept under the tag unknown by the English keyword
\* "machine learning", and the German sentence "Die KI ist gut und stark." was not.
C6_Witness ==
    /\ call.detected = Raise
    /\ Len(call.sents[1]) = 20
    /\ ret = <<<<<<UNKNOWN, <<"M","a","c","h","i","n","e"," ","L","e","a","r","n","i","n","g"," ","K","I",".">>>>>>>>

---------------------------------------------------------------------------
(* Properties of score_sentence *)

\* the weights of the lexicon, in tenths, in the order of HitWords
RefWeights10 == <<20, 15, 15, 10, 10, 12, -10, -15, -15, -15, -15, -15, -15>>

RECURSIVE RefRaw10(_, _)
RefRaw10(hits, k) ==
    IF k > Len(RefWeights10) THEN 0
    ELSE (IF k \in hits THEN RefWeights10[k] ELSE 0) + RefRaw10(hits, k + 1)

\* x = min(raw/3.0, 1.0) for raw > 0, max(raw/3.0, -1.0) for raw < 0, 0.0 for raw = 0,
\* with raw = raw10 / 10
RefNormalised(x, raw10) ==
    IF raw10 >= 30 THEN x.n = x.d
    ELSE IF raw10 <= -30 THEN x.n = -x.d
    ELSE x.n * 30 = raw10 * x.d

\* C7: a score that score_sentence returns lies in [-1, 1]; on the German path it
\* is min(raw/3.0, 1.0) for raw > 0, max(raw/3.0, -1.0) for raw < 0 and 0.0 for
\* raw = 0, where raw is the sum of the weights of the lexicon terms in the sentence,
\* with its sign inverted when the sentence holds a negation token.
C7_ScoreInRangeAndNormalised ==
    ret # None =>
        LET x == ret[1]
        IN  /\ x.d > 0
            /\ -x.d <= x.n /\ x.n <= x.d
            /\ call.lang = DE =>
                    RefNormalised(x, IF call.negs # <<>> THEN -RefRaw10(call.hits, 1)
                                     ELSE RefRaw10(call.hits, 1))

\* C7 witness: "Die KI gut positiv." has raw = 3.5 and scored 1.0.
C7_Witness ==
    /\ call.lang = DE /\ call.hits = {1, 2} /\ call.negs = <<>> /\ call.decoys = <<>>
    /\ ret = <<One>>

\* C8: on the German path a sentence with one or more negation tokens scores exactly
\* the negative of what the sentence with the same lexicon terms and no negation
\* token scores; with exactly one positive lexicon term of weight w it scores
\* -min(w/3.0, 1.0).
C8_NegationFlipsTheSign ==
    (ret # None /\ call.lang = DE /\ call.negs # <<>>) =>
        /\ ret[1] = FNeg(score_sentence(DE, ScoreInput([call EXCEPT !.negs = <<>>]), Zero))
        /\ \A h \in 1..Len(RefWeights10) :
              (call.hits = {h} /\ RefWeights10[h] > 0) =>
                  ret[1] = FNeg(FMin(Frac(RefWeights10[h], 30), One))

\* C8 witness: "Die KI gut keine nie." holds two negation tokens and one positive
\* lexicon term of weight 2.0, and scored -2/3.
C8_Witness ==
    /\ call.lang = DE /\ call.hits = {1} /\ Len(call.negs) = 2
    /\ call.negs[1] # NEGATION_TOKENS[1] /\ call.negs[2] # NEGATION_TOKENS[1]
    /\ ret = <<Frac(-2, 3)>>

---------------------------------------------------------------------------
(* Properties of extract_year_month *)

\* a string yields a date when it holds a year 20dd
Yields(str) ==
    \E p \in 1..(Len(str) - 3) :
        /\ str[p] = "2" /\ str[p + 1] = "0"
        /\ str[p + 2] \in DigitSet /\ str[p + 3] \in DigitSet

\* C9: extract_year_month returns the date of the first source that yields one, in
\* the order explicit timestamp, body text, title, URL or filename; a later source
\* decides only when every earlier one yields nothing; when none yields a date the
\* year and the month are both empty; year and month are always both empty or both
\* set.
C9_FirstSourceThatYieldsADate ==
    ret # None =>
        LET r == ret[1]
        IN  /\ call.publish_date # None => r = call.publish_date
            /\ (call.publish_date = None /\ Yields(call.text)) =>
                    r = _find_date_in_text(call.text)
            /\ (call.publish_date = None /\ ~Yields(call.text) /\ Yields(call.title)) =>
                    r = _find_date_in_text(call.title)
            /\ (call.publish_date = None /\ ~Yields(call.text) /\ ~Yields(call.title)
                    /\ Yields(call.url)) =>
                    r = _find_date_in_text(call.url)
            /\ (call.publish_date = None /\ ~Yields(call.text) /\ ~Yields(call.title)
                    /\ ~Yields(call.url)) =>
                    r = <<EMPTY, EMPTY>>
            /\ (r[1] = EMPTY) <=> (r[2] = EMPTY)
            /\ r[1] # EMPTY => (r[1] \in 2000..2099 /\ r[2] \in 1..12)

\* C9 witness: no timestamp, the text "Im Mai" holds no date, the title
\* "AI update, May 2025" does, and so does the filename sap_2023-04.PDF: the result
\* was the title's 2025, 5.
C9_Witness ==
    /\ call.publish_date = None
    /\ call.text = <<"I","m"," ","M","a","i">>
    /\ call.title = TITLE_EN
    /\ call.url = URL_PDF
    /\ ret = <<<<2025, 5>>>>

---------------------------------------------------------------------------
(* Properties of _find_date_in_text *)

\* the positions of the 20dd year tokens of a text
YearPositions(text) ==
    {p \in 1..(Len(text) - 3) :
        /\ text[p] = "2" /\ text[p + 1] = "0"
        /\ text[p + 2] \in DigitSet /\ text[p + 3] \in DigitSet}

\* the word that stands, with whitespace between, immediately before position p
WordBefore(text, p) ==
    IF p < 3 \/ text[p - 1] \notin SpaceSet THEN None
    ELSE LET ws == run_start(text, p - 1, SpaceSet)
         IN  IF ws = 1 \/ text[ws - 1] \notin LetterSet THEN None
             ELSE SubSeq(text, run_start(text, ws - 1, LetterSet), ws - 1)

\* the number of a month name, English or German, 0 for any other word
MonthNumber(word) ==
    IF months_get(MONTHS_EN, lower(word)) # 0 THEN months_get(MONTHS_EN, lower(word))
    ELSE months_get(MONTHS_DE, lower(word))

\* the month by the strict fallback: the month name immediately before the year at
\* p, else the valid numeric month after a YYYY and a separator, else 1
FallbackMonth(text, p) ==
    IF MonthNumber(WordBefore(text, p)) # 0 THEN MonthNumber(WordBefore(text, p))
    ELSE IF search_numeric_month(text) # None /\ valid_month(int(search_numeric_month(text)))
         THEN int(search_numeric_month(text))
    ELSE 1

\* C11: _find_date_in_text returns None for a text without a 20dd year; otherwise
\* the year is the first 20dd occurrence and the month is the month name standing
\* immediately before that first occurrence, else the 1-2 digit month after a YYYY
\* and a '.', '-' or '/', else 1; a month name before a later occurrence of the year
\* is not used, and the month is in 1..12.
C11_MonthIsOfTheFirstYearOccurrence ==
    ret # None =>
        IF YearPositions(call) = {} THEN ret[1] = None
        ELSE LET p == SetMin(YearPositions(call))
             IN  /\ ret[1] # None
                 /\ ret[1][1] = int(SubSeq(call, p, p + 3))
                 /\ ret[1][2] = FallbackMonth(call, p)
                 /\ ret[1][2] \in 1..12

---------------------------------------------------------------------------
(* Properties of the score and label columns *)

\* C12: in every output row the label equals label_from_score applied to the row's
\* score column, which is the mean of the release's sentence scores rounded to 4
\* decimal places.
C12_LabelMatchesTheWrittenScore ==
    \A k \in 1..Len(rows) :
        rows[k].label = label_from_score(Frac(rows[k].score, 10000))[1]

====
